---- MODULE Spec2Model ----
(***************************************************************************)
(* Inventory reconciliation of osquery.py (class OsQuery) against a shared *)
(* neo4j graph store.                                                      *)
(*                                                                         *)
(* One process per host.  A run (main) constructs OsQuery (timestamp,      *)
(* get_sys) and then calls upsert_software for every item of the query     *)
(* result.  Every store round trip (query, node creation, label addition,  *)
(* relationship creation, property write) is one atomic step; the steps of *)
(* different hosts interleave.                                             *)
(***************************************************************************)
EXTENDS Integers, Sequences, FiniteSets, TLC

\* ------------------------------------------------------------------ bounds
MaxRuns == 2          \* runs started, over all hosts, when runs overlap
MaxFacts == 1         \* items in one run's query result, when runs overlap
MaxSeqRuns == 3       \* runs started, over all hosts, when runs follow one another
MaxSeqFacts == 2      \* items in one run's query result, when runs follow one another
MaxClock == 2         \* last clock tick
MaxFails == 1         \* store failures
TicksPerSecond == 2   \* clock ticks per second of the "%S" resolution
MaxRaceRuns == 3      \* runs started, over all hosts, of one item each within one clock tick
MaxNode == 2          \* node ids in the results handed to unfold alone
MaxList == 2          \* length of the lists handed to unfold alone
MaxOddRuns == 3        \* runs started, over all hosts, when hosts of any guid run

\* ------------------------------------------------------------------ values
QUOTE == "'"
BSL == "\\"

Procs == {1, 2}

\* hosts whose --sys-id holds a backslash pair (3) or a single quote (4)
OddProcs == {3, 4}

AllProcs == Procs \cup OddProcs

None == 0

\* --sys-id of each host (distinct hosts, distinct guids)
SysId(p) ==
    IF p = 1 THEN <<"A">>
    ELSE IF p = 2 THEN <<"B">>
    ELSE IF p = 3 THEN <<"C", BSL, BSL>>
    ELSE <<"D", QUOTE>>

\* socket.gethostname().split(".")[0] in the r-th run of host p: host 1 is renamed
\* after its first run, host 2 keeps its name
Hostname(p, r) ==
    IF p = 1 THEN (IF r <= 1 THEN <<"h", "1">> ELSE <<"h", "1", "b">>)
    ELSE IF p = 2 THEN <<"h", "2">>
    ELSE IF p = 3 THEN <<"h", "3">>
    ELSE <<"h", "4">>

Versions == { <<"1">>, <<BSL, BSL>>, <<BSL, BSL, BSL, BSL>>, <<QUOTE>> }

\* json.loads(res): dicts with name, path, version, src
Facts == { [name |-> <<"c">>, path |-> <<"p">>, version |-> v, src |-> <<"s">>] :
           v \in Versions }

\* no item at hand
NoSw == [name |-> <<>>, path |-> <<>>, version |-> <<>>, src |-> <<>>]

VARIABLES
    nodes,        \* the store's nodes: sequence of [labels, props], index = node id
    rels,         \* the store's relationships: set of <<from, type, to>>
    clock,        \* wall clock, in ticks
    pc,           \* per host: position in main
    now,          \* per host: self._now
    system_node,  \* per host: self._system_node
    item,         \* per host: the item of json.loads(res) that output has reached
    left,         \* per host: the number of items of json.loads(res) after item
    sw_base,      \* per host: local sw_base of upsert_software
    sw_inst,      \* per host: local sw_inst of upsert_software
    runs,         \* per host: number of runs started
    raised,       \* history: number of exceptions raised so far
    completed,    \* history: <<host, fact>> of every upsert_software call that returned
    exc,          \* history: the last exception that ended a run
    wrote,        \* history, per host: the latest run of the host has written to the store
    unfold_res,   \* unfold called alone: the argument, a list loses what the call pops
    unfold_ret    \* unfold called alone: the outcome of the call

vars == <<nodes, rels, clock, pc, now, system_node, item, left,
          sw_base, sw_inst, runs, raised, completed, exc, wrote, unfold_res, unfold_ret>>

\* ------------------------------------------------------------ the store
SystemNode(hostname, guid) ==
    [labels |-> {}, props |-> [name |-> hostname, guid |-> guid]]

SwBaseNode(sw) ==
    [labels |-> {},
     props |-> [name |-> sw.name, path |-> sw.path, version |-> sw.version, src |-> sw.src]]

\* faulty variant of SwInstNode: last_seen is not the timestamp of the run
SwInstNodeUnseen(t) ==
    [labels |-> {}, props |-> [discovered |-> t, last_seen |-> 0, vanished |-> "0"]]

SwInstNode(t) ==
    [labels |-> {}, props |-> [discovered |-> t, last_seen |-> t, vanished |-> "0"]]

AddLabel(ns, i, l) == [ns EXCEPT ![i].labels = @ \cup {l}]

\* faulty variants of SetLastSeen: the write goes to the wrong attribute; the
\* value written is not the timestamp of the run
SetLastSeenWrongKey(ns, i, t) == [ns EXCEPT ![i].props.discovered = t]
SetLastSeenStale(ns, i, t) == [ns EXCEPT ![i].props.last_seen = 0]

\* further faulty variants of SetLastSeen: the refresh also marks the node as
\* vanished; the refresh sets both timestamps of the node
SetLastSeenVanished(ns, i, t) ==
    [ns EXCEPT ![i].props.last_seen = t, ![i].props.vanished = "1"]
SetLastSeenBoth(ns, i, t) ==
    [ns EXCEPT ![i].props.last_seen = t, ![i].props.discovered = t]

\* sw_inst['last_seen'] = t
SetLastSeen(ns, i, t) == [ns EXCEPT ![i].props.last_seen = t]

HasProps(n, keys) == keys \subseteq DOMAIN n.props

IsSystem(n) == "SYSTEM" \in n.labels
IsSwBase(n) == "SW_BASE" \in n.labels
IsSwInst(n) == "SW_INSTALLATION" \in n.labels

\* datetime.now().strftime("%F_%H-%M-%S"): the clock cut to whole seconds; the
\* fixed-width string orders as the number of seconds does
Strftime(c) == c \div TicksPerSecond

\* The value the store reads from the text  'v'  of a query: the characters of v
\* between single quotes, parsed as a Cypher string literal.  A quote inside v
\* ends the literal early and a backslash starts an escape sequence; the
\* query is rejected when what is left is no literal.
Rejected == [ok |-> FALSE, val |-> <<>>]

RECURSIVE CypherLiteral(_)
CypherLiteral(v) ==
    IF v = <<>> THEN [ok |-> TRUE, val |-> <<>>]
    ELSE IF Head(v) = QUOTE THEN Rejected
    ELSE IF Head(v) = BSL
         THEN IF Len(v) >= 2 /\ v[2] \in {BSL, QUOTE}
              THEN LET r == CypherLiteral(SubSeq(v, 3, Len(v)))
                   IN  IF r.ok THEN [ok |-> TRUE, val |-> <<v[2]>> \o r.val] ELSE Rejected
              ELSE Rejected
    ELSE LET r == CypherLiteral(Tail(v))
         IN  IF r.ok THEN [ok |-> TRUE, val |-> <<Head(v)>> \o r.val] ELSE Rejected

QuerySequence(rows) == [type |-> "QuerySequence", rows |-> rows]

SyntaxError == [type |-> "error", rows |-> {}]

\* "MATCH (me:SYSTEM {guid: '%(--sys-id)s'}) RETURN me": one row per match
SystemMatches(ns, guid) ==
    LET g == CypherLiteral(guid)
    IN  IF ~g.ok THEN SyntaxError
        ELSE QuerySequence({ <<i>> : i \in { j \in DOMAIN ns :
                 /\ IsSystem(ns[j])
                 /\ HasProps(ns[j], {"guid"})
                 /\ ns[j].props.guid = g.val } })

\* (node:SW_BASE {name: '..', path: '..', src: '..', version: '..'})
SwBasePattern(n, sw) ==
    /\ IsSwBase(n)
    /\ HasProps(n, {"name", "path", "src", "version"})
    /\ n.props.name = CypherLiteral(sw.name).val
    /\ n.props.path = CypherLiteral(sw.path).val
    /\ n.props.src = CypherLiteral(sw.src).val
    /\ n.props.version = CypherLiteral(sw.version).val

FactLiteralsOk(sw) ==
    /\ CypherLiteral(sw.name).ok
    /\ CypherLiteral(sw.path).ok
    /\ CypherLiteral(sw.src).ok
    /\ CypherLiteral(sw.version).ok

\* "MATCH (node:SW_BASE {...}) RETURN node"
SwBaseMatches(ns, sw) ==
    IF ~FactLiteralsOk(sw) THEN SyntaxError
    ELSE QuerySequence({ <<i>> : i \in { j \in DOMAIN ns : SwBasePattern(ns[j], sw) } })

\* "MATCH (me:SYSTEM {guid})-[:HAS]->(sw_inst:SW_INSTALLATION)<-[:PART_OF]-
\*  (node:SW_BASE {...}) RETURN sw_inst": one row per match of the whole pattern
SwInstMatches(ns, rs, guid, sw) ==
    LET g == CypherLiteral(guid)
    IN  IF ~g.ok \/ ~FactLiteralsOk(sw) THEN SyntaxError
        ELSE QuerySequence({ <<m[1][3], m[1][1], m[2][1]>> : m \in
                 { x \in rs \X rs :
                     /\ x[1][2] = "HAS"
                     /\ x[2][2] = "PART_OF"
                     /\ x[1][3] = x[2][3]
                     /\ IsSystem(ns[x[1][1]])
                     /\ HasProps(ns[x[1][1]], {"guid"})
                     /\ ns[x[1][1]].props.guid = g.val
                     /\ IsSwInst(ns[x[1][3]])
                     /\ SwBasePattern(ns[x[2][1]], sw) } })

\* OsQuery.unfold: a QuerySequence of one row gives the row's node, any other
\* QuerySequence gives None; a list is popped and the result of the recursive
\* call is not returned; anything else is returned as it is
Unfold(res) ==
    IF res.type = "QuerySequence" /\ Cardinality(res.rows) = 1
    THEN (CHOOSE r \in res.rows : TRUE)[1]
    ELSE IF res.type = "list" THEN None
    ELSE IF res.type = "QuerySequence" THEN None
    ELSE res.val

\* a node that is handed to unfold as it is
NodeRes(n) == [type |-> "Node", val |-> n]

\* a Python list of results
List(elems) == [type |-> "list", elems |-> elems]

\* unfold raises: res.pop() of an empty list is an IndexError, in the call or in
\* the recursive call on the popped element
RECURSIVE UnfoldRaises(_)
UnfoldRaises(r) ==
    /\ r.type = "list"
    /\ \/ r.elems = <<>>
       \/ UnfoldRaises(r.elems[Len(r.elems)])

\* the argument after the call: res.pop() has taken the last element of a list
Popped(r) ==
    IF r.type = "list" /\ r.elems # <<>>
    THEN List(SubSeq(r.elems, 1, Len(r.elems) - 1))
    ELSE r

\* no exception so far
NoExc == [host |-> None, kind |-> "none", at |-> "idle", wrote |-> FALSE]

\* unfold is not called alone
NoRes == [type |-> "none"]
NotCalled == [state |-> "not called", arg |-> NoRes, val |-> None]

\* ------------------------------------------------------------ the runs
Init ==
    /\ nodes = <<>>
    /\ rels = {}
    /\ clock = 0
    /\ pc = [p \in AllProcs |-> "idle"]
    /\ now = [p \in AllProcs |-> 0]
    /\ system_node = [p \in AllProcs |-> None]
    /\ item = [p \in AllProcs |-> NoSw]
    /\ left = [p \in AllProcs |-> 0]
    /\ sw_base = [p \in AllProcs |-> None]
    /\ sw_inst = [p \in AllProcs |-> None]
    /\ runs = [p \in AllProcs |-> 0]
    /\ raised = 0
    /\ completed = {}
    /\ exc = NoExc
    /\ wrote = [p \in AllProcs |-> FALSE]
    /\ unfold_res = NoRes
    /\ unfold_ret = NotCalled

\* upsert_software is in progress
InCall(p) == pc[p] \in {"base_query", "base_create", "base_label", "inst_query",
                        "inst_create", "inst_label", "inst_part_of", "inst_has",
                        "inst_touch"}

\* the process ends: its object is gone
EndRun(p) ==
    /\ pc' = [pc EXCEPT ![p] = "idle"]
    /\ now' = [now EXCEPT ![p] = 0]
    /\ system_node' = [system_node EXCEPT ![p] = None]
    /\ item' = [item EXCEPT ![p] = NoSw]
    /\ sw_base' = [sw_base EXCEPT ![p] = None]
    /\ sw_inst' = [sw_inst EXCEPT ![p] = None]

\* An exception in __init__ or in upsert_software: nothing catches it, neither in
\* the loop of output nor in run or main, so the process ends there and the
\* items left are never looked at
Raise(p, kind) ==
    /\ EndRun(p)
    /\ raised' = raised + 1
    /\ exc' = [host |-> p, kind |-> kind, at |-> pc[p], wrote |-> wrote[p]]
    /\ UNCHANGED <<nodes, rels, clock, left, runs, completed, wrote, unfold_res,
                   unfold_ret>>

\* "for item in json.loads(res)": the next item, if there is one
NextItem(p) ==
    /\ left[p] > 0
    /\ \E f \in Facts : item' = [item EXCEPT ![p] = f]
    /\ left' = [left EXCEPT ![p] = @ - 1]
    /\ pc' = [pc EXCEPT ![p] = "base_query"]
    /\ sw_base' = [sw_base EXCEPT ![p] = None]
    /\ sw_inst' = [sw_inst EXCEPT ![p] = None]
    /\ UNCHANGED now

\* the loop of output is over: run and main return
LoopEnds(p) ==
    /\ left[p] = 0
    /\ EndRun(p)
    /\ UNCHANGED left

\* upsert_software returns
Return(p) ==
    /\ completed' = completed \cup {<<p, item[p]>>}
    /\ \/ NextItem(p) /\ UNCHANGED system_node
       \/ LoopEnds(p)

\* main: OsQuery(qcfg) takes the timestamp at clock tick t; n, the number of
\* items that the query of run will give, is the input
Start(p, t, n) ==
    /\ pc[p] = "idle"
    /\ clock' = t
    /\ now' = [now EXCEPT ![p] = Strftime(t)]
    /\ left' = [left EXCEPT ![p] = n]
    /\ pc' = [pc EXCEPT ![p] = "sys_query"]
    /\ runs' = [runs EXCEPT ![p] = @ + 1]
    /\ wrote' = [wrote EXCEPT ![p] = FALSE]
    /\ UNCHANGED <<nodes, rels, system_node, item, sw_base, sw_inst, raised, completed,
                   exc, unfold_res, unfold_ret>>

RECURSIVE Sum(_, _)
Sum(f, S) == IF S = {} THEN 0 ELSE LET x == CHOOSE y \in S : TRUE IN f[x] + Sum(f, S \ {x})

\* a host starts a run, whatever the other hosts are doing
StartRun(p) ==
    /\ Sum(runs, Procs) < MaxRuns
    /\ \E t \in clock..MaxClock, n \in 0..MaxFacts : Start(p, t, n)

\* a host starts a run when no other run is in progress
SeqStartRun(p) ==
    /\ Sum(runs, Procs) < MaxSeqRuns
    /\ \A q \in Procs : pc[q] = "idle"
    /\ \E t \in clock..MaxClock, n \in 0..MaxSeqFacts : Start(p, t, n)

\* after get_sys: __init__ returns and run starts the loop of output
AfterGetSys(p, node) ==
    \/ NextItem(p) /\ system_node' = [system_node EXCEPT ![p] = node]
    \/ LoopEnds(p)

\* get_sys: the query and unfold
GetSysQuery(p) ==
    /\ pc[p] = "sys_query"
    /\ LET res == SystemMatches(nodes, SysId(p))
       IN  IF res.type = "error"
           THEN Raise(p, "QueryError")
           ELSE LET node == Unfold(res)
                IN  IF node = None
                    THEN /\ pc' = [pc EXCEPT ![p] = "sys_create"]
                         /\ UNCHANGED <<nodes, rels, clock, now, system_node, item,
                                        left, sw_base, sw_inst, runs, raised,
                                        completed, exc, wrote, unfold_res, unfold_ret>>
                    ELSE /\ AfterGetSys(p, node)
                         /\ UNCHANGED <<nodes, rels, clock, runs, raised, completed,
                                        exc, wrote, unfold_res, unfold_ret>>

\* get_sys: self._gdb.nodes.create(name=.., guid=..)
GetSysCreate(p) ==
    /\ pc[p] = "sys_create"
    /\ wrote' = [wrote EXCEPT ![p] = TRUE]
    /\ nodes' = Append(nodes, SystemNode(Hostname(p, runs[p]), SysId(p)))
    /\ system_node' = [system_node EXCEPT ![p] = Len(nodes) + 1]
    /\ pc' = [pc EXCEPT ![p] = "sys_label"]
    /\ UNCHANGED <<rels, clock, now, item, left, sw_base, sw_inst, runs, raised,
                   completed, exc, unfold_res, unfold_ret>>

\* get_sys: self._labels['SYS'].add(self._system_node)
GetSysLabel(p) ==
    /\ pc[p] = "sys_label"
    /\ wrote' = [wrote EXCEPT ![p] = TRUE]
    /\ nodes' = AddLabel(nodes, system_node[p], "SYSTEM")
    /\ AfterGetSys(p, system_node[p])
    /\ UNCHANGED <<rels, clock, runs, raised, completed, exc, unfold_res, unfold_ret>>

\* upsert_software: the SW_BASE query and unfold
UpsertBaseQuery(p) ==
    /\ pc[p] = "base_query"
    /\ LET res == SwBaseMatches(nodes, item[p])
       IN  IF res.type = "error"
           THEN Raise(p, "QueryError")
           ELSE /\ sw_base' = [sw_base EXCEPT ![p] = Unfold(res)]
                /\ pc' = [pc EXCEPT ![p] =
                      IF Unfold(res) = None THEN "base_create" ELSE "inst_query"]
                /\ UNCHANGED <<nodes, rels, clock, now, system_node, item, left,
                               sw_inst, runs, raised, completed, exc, wrote,
                               unfold_res, unfold_ret>>

\* upsert_software: sw_base = self._gdb.nodes.create(name=.., path=.., version=.., src=..)
UpsertBaseCreate(p) ==
    /\ pc[p] = "base_create"
    /\ wrote' = [wrote EXCEPT ![p] = TRUE]
    /\ nodes' = Append(nodes, SwBaseNode(item[p]))
    /\ sw_base' = [sw_base EXCEPT ![p] = Len(nodes) + 1]
    /\ pc' = [pc EXCEPT ![p] = "base_label"]
    /\ UNCHANGED <<rels, clock, now, system_node, item, left, sw_inst, runs, raised,
                   completed, exc, unfold_res, unfold_ret>>

\* upsert_software: self._labels['SW_BASE'].add(sw_base)
UpsertBaseLabel(p) ==
    /\ pc[p] = "base_label"
    /\ wrote' = [wrote EXCEPT ![p] = TRUE]
    /\ nodes' = AddLabel(nodes, sw_base[p], "SW_BASE")
    /\ pc' = [pc EXCEPT ![p] = "inst_query"]
    /\ UNCHANGED <<rels, clock, now, system_node, item, left, sw_base, sw_inst, runs,
                   raised, completed, exc, unfold_res, unfold_ret>>

\* upsert_software: the SW_INSTALLATION query and unfold
UpsertInstQuery(p) ==
    /\ pc[p] = "inst_query"
    /\ LET res == SwInstMatches(nodes, rels, SysId(p), item[p])
       IN  IF res.type = "error"
           THEN Raise(p, "QueryError")
           ELSE /\ sw_inst' = [sw_inst EXCEPT ![p] = Unfold(res)]
                /\ pc' = [pc EXCEPT ![p] =
                      IF Unfold(res) = None THEN "inst_create" ELSE "inst_touch"]
                /\ UNCHANGED <<nodes, rels, clock, now, system_node, item, left,
                               sw_base, runs, raised, completed, exc, wrote,
                               unfold_res, unfold_ret>>

\* upsert_software: sw_inst = self._gdb.nodes.create(discovered=.., last_seen=.., vanished="0")
UpsertInstCreate(p) ==
    /\ pc[p] = "inst_create"
    /\ wrote' = [wrote EXCEPT ![p] = TRUE]
    /\ nodes' = Append(nodes, SwInstNode(now[p]))
    /\ sw_inst' = [sw_inst EXCEPT ![p] = Len(nodes) + 1]
    /\ pc' = [pc EXCEPT ![p] = "inst_label"]
    /\ UNCHANGED <<rels, clock, now, system_node, item, left, sw_base, runs, raised,
                   completed, exc, unfold_res, unfold_ret>>

\* upsert_software: self._labels['SW_INST'].add(sw_inst)
UpsertInstLabel(p) ==
    /\ pc[p] = "inst_label"
    /\ wrote' = [wrote EXCEPT ![p] = TRUE]
    /\ nodes' = AddLabel(nodes, sw_inst[p], "SW_INSTALLATION")
    /\ pc' = [pc EXCEPT ![p] = "inst_part_of"]
    /\ UNCHANGED <<rels, clock, now, system_node, item, left, sw_base, sw_inst, runs,
                   raised, completed, exc, unfold_res, unfold_ret>>

\* faulty variant of UpsertPartOf: the relationship is not created
UpsertPartOfSkipped(p) ==
    /\ pc[p] = "inst_part_of"
    /\ pc' = [pc EXCEPT ![p] = "inst_has"]
    /\ UNCHANGED <<nodes, rels, clock, now, system_node, item, left, sw_base, sw_inst,
                   runs, raised, completed, exc, wrote, unfold_res, unfold_ret>>

\* upsert_software: sw_base.relationships.create("PART_OF", sw_inst)
UpsertPartOf(p) ==
    /\ pc[p] = "inst_part_of"
    /\ wrote' = [wrote EXCEPT ![p] = TRUE]
    /\ rels' = rels \cup {<<sw_base[p], "PART_OF", sw_inst[p]>>}
    /\ pc' = [pc EXCEPT ![p] = "inst_has"]
    /\ UNCHANGED <<nodes, clock, now, system_node, item, left, sw_base, sw_inst, runs,
                   raised, completed, exc, unfold_res, unfold_ret>>

\* upsert_software: self._system_node.relationships.create("HAS", sw_inst), and return
UpsertHas(p) ==
    /\ pc[p] = "inst_has"
    /\ wrote' = [wrote EXCEPT ![p] = TRUE]
    /\ rels' = rels \cup {<<system_node[p], "HAS", sw_inst[p]>>}
    /\ Return(p)
    /\ UNCHANGED <<nodes, clock, runs, raised, exc, unfold_res, unfold_ret>>

\* upsert_software: sw_inst['last_seen'] = self._now, and return
UpsertTouch(p) ==
    /\ pc[p] = "inst_touch"
    /\ wrote' = [wrote EXCEPT ![p] = TRUE]
    /\ nodes' = SetLastSeen(nodes, sw_inst[p], now[p])
    /\ Return(p)
    /\ UNCHANGED <<rels, clock, runs, raised, exc, unfold_res, unfold_ret>>

\* a store round trip fails (the store is unreachable, the process is cancelled):
\* the call raises before it has any effect
StoreFails(p) ==
    /\ pc[p] # "idle"
    /\ raised < MaxFails
    /\ Raise(p, "ConnectionError")

\* __init__: GraphDatabase(url) raises ConnectionError, which is caught; after
\* time.sleep(3), self.con_gdbp() is called, which is no method of the class: an
\* AttributeError, which nothing catches.  run, and so the query, is never reached.
ConnectFails(p) ==
    /\ pc[p] = "idle"
    /\ Sum(runs, Procs) < MaxRuns
    /\ raised < MaxFails
    /\ \E t \in clock..MaxClock : clock' = t
    /\ runs' = [runs EXCEPT ![p] = @ + 1]
    /\ raised' = raised + 1
    /\ wrote' = [wrote EXCEPT ![p] = FALSE]
    /\ exc' = [host |-> p, kind |-> "AttributeError", at |-> "connect", wrote |-> FALSE]
    /\ UNCHANGED <<nodes, rels, pc, now, system_node, item, left, sw_base, sw_inst,
                   completed, unfold_res, unfold_ret>>

Next ==
    \E p \in Procs :
        \/ StartRun(p)
        \/ ConnectFails(p)
        \/ GetSysQuery(p)
        \/ GetSysCreate(p)
        \/ GetSysLabel(p)
        \/ UpsertBaseQuery(p)
        \/ UpsertBaseCreate(p)
        \/ UpsertBaseLabel(p)
        \/ UpsertInstQuery(p)
        \/ UpsertInstCreate(p)
        \/ UpsertInstLabel(p)
        \/ UpsertPartOf(p)
        \/ UpsertHas(p)
        \/ UpsertTouch(p)
        \/ StoreFails(p)

Spec == Init /\ [][Next]_vars

\* the runs of all hosts one after the other, the store always reachable
NextSeq ==
    \E p \in Procs :
        \/ SeqStartRun(p)
        \/ GetSysQuery(p)
        \/ GetSysCreate(p)
        \/ GetSysLabel(p)
        \/ UpsertBaseQuery(p)
        \/ UpsertBaseCreate(p)
        \/ UpsertBaseLabel(p)
        \/ UpsertInstQuery(p)
        \/ UpsertInstCreate(p)
        \/ UpsertInstLabel(p)
        \/ UpsertPartOf(p)
        \/ UpsertHas(p)
        \/ UpsertTouch(p)

SpecSeq == Init /\ [][NextSeq]_vars

\* a host starts a run of one item at the present clock tick, whatever the other
\* hosts are doing
RaceStartRun(p) ==
    /\ Sum(runs, Procs) < MaxRaceRuns
    /\ Start(p, clock, 1)

\* the runs of the hosts interleaved, the store always reachable
NextRace ==
    \E p \in Procs :
        \/ RaceStartRun(p)
        \/ GetSysQuery(p)
        \/ GetSysCreate(p)
        \/ GetSysLabel(p)
        \/ UpsertBaseQuery(p)
        \/ UpsertBaseCreate(p)
        \/ UpsertBaseLabel(p)
        \/ UpsertInstQuery(p)
        \/ UpsertInstCreate(p)
        \/ UpsertInstLabel(p)
        \/ UpsertPartOf(p)
        \/ UpsertHas(p)
        \/ UpsertTouch(p)

SpecRace == Init /\ [][NextRace]_vars

\* a host, its guid plain text or not, starts a run when no other run is in
\* progress
OddStartRun(p) ==
    /\ Sum(runs, AllProcs) < MaxOddRuns
    /\ \A q \in AllProcs : pc[q] = "idle"
    /\ \E t \in clock..MaxClock, n \in 0..MaxFacts : Start(p, t, n)

\* the runs of all these hosts one after the other, the store always reachable
NextOdd ==
    \E p \in AllProcs :
        \/ OddStartRun(p)
        \/ GetSysQuery(p)
        \/ GetSysCreate(p)
        \/ GetSysLabel(p)
        \/ UpsertBaseQuery(p)
        \/ UpsertBaseCreate(p)
        \/ UpsertBaseLabel(p)
        \/ UpsertInstQuery(p)
        \/ UpsertInstCreate(p)
        \/ UpsertInstLabel(p)
        \/ UpsertPartOf(p)
        \/ UpsertHas(p)
        \/ UpsertTouch(p)

SpecOdd == Init /\ [][NextOdd]_vars

\* a store that already holds two SYSTEM nodes with the guid of host 1
InitSeeded ==
    /\ nodes = << AddLabel(<<SystemNode(Hostname(1, 1), SysId(1))>>, 1, "SYSTEM")[1],
                  AddLabel(<<SystemNode(Hostname(1, 1), SysId(1))>>, 1, "SYSTEM")[1] >>
    /\ rels = {}
    /\ clock = 0
    /\ pc = [p \in AllProcs |-> "idle"]
    /\ now = [p \in AllProcs |-> 0]
    /\ system_node = [p \in AllProcs |-> None]
    /\ item = [p \in AllProcs |-> NoSw]
    /\ left = [p \in AllProcs |-> 0]
    /\ sw_base = [p \in AllProcs |-> None]
    /\ sw_inst = [p \in AllProcs |-> None]
    /\ runs = [p \in AllProcs |-> 0]
    /\ raised = 0
    /\ completed = {}
    /\ exc = NoExc
    /\ wrote = [p \in AllProcs |-> FALSE]
    /\ unfold_res = NoRes
    /\ unfold_ret = NotCalled

SpecSeeded == InitSeeded /\ [][Next]_vars

\* ------------------------------------------------------------ unfold alone
NodeIds == 1..MaxNode

\* the results of a query: QuerySequences of rows of one node; and nodes
Results0 ==
    { QuerySequence(rows) : rows \in SUBSET { <<n>> : n \in NodeIds } }
        \cup { NodeRes(n) : n \in NodeIds }

SeqsOf(S) == UNION { [1..k -> S] : k \in 0..MaxList }

\* lists of results, and lists that nest one such list
Lists1 == { List(s) : s \in SeqsOf(Results0) }
Lists2 == { List(<<l>>) : l \in Lists1 }

UnfoldInputs == Results0 \cup Lists1 \cup Lists2

InitUnfold ==
    /\ nodes = <<>>
    /\ rels = {}
    /\ clock = 0
    /\ pc = [p \in AllProcs |-> "idle"]
    /\ now = [p \in AllProcs |-> 0]
    /\ system_node = [p \in AllProcs |-> None]
    /\ item = [p \in AllProcs |-> NoSw]
    /\ left = [p \in AllProcs |-> 0]
    /\ sw_base = [p \in AllProcs |-> None]
    /\ sw_inst = [p \in AllProcs |-> None]
    /\ runs = [p \in AllProcs |-> 0]
    /\ raised = 0
    /\ completed = {}
    /\ exc = NoExc
    /\ wrote = [p \in AllProcs |-> FALSE]
    /\ unfold_res \in UnfoldInputs
    /\ unfold_ret = NotCalled

\* self.unfold(res)
UnfoldCall ==
    /\ unfold_ret.state = "not called"
    /\ unfold_ret' = IF UnfoldRaises(unfold_res)
                     THEN [state |-> "raised", arg |-> unfold_res, val |-> None]
                     ELSE [state |-> "returned", arg |-> unfold_res,
                           val |-> Unfold(unfold_res)]
    /\ unfold_res' = Popped(unfold_res)
    /\ UNCHANGED <<nodes, rels, clock, pc, now, system_node, item, left, sw_base,
                   sw_inst, runs, raised, completed, exc, wrote>>

NextUnfold == UnfoldCall

SpecUnfold == InitUnfold /\ [][NextUnfold]_vars

\* ------------------------------------------------------------ views of the store
SystemNodes == { i \in DOMAIN nodes : IsSystem(nodes[i]) }
SwBaseNodes == { i \in DOMAIN nodes : IsSwBase(nodes[i]) }
SwInstNodes == { i \in DOMAIN nodes : IsSwInst(nodes[i]) }

\* the SW_BASE nodes that carry the four fields of the fact sw
SwBaseOf(sw) ==
    { i \in SwBaseNodes :
        /\ HasProps(nodes[i], {"name", "path", "src", "version"})
        /\ nodes[i].props.name = sw.name
        /\ nodes[i].props.path = sw.path
        /\ nodes[i].props.src = sw.src
        /\ nodes[i].props.version = sw.version }

\* the SYSTEM nodes that carry the guid
SystemOf(guid) ==
    { i \in SystemNodes : HasProps(nodes[i], {"guid"}) /\ nodes[i].props.guid = guid }

HasFrom(i) == { r[1] : r \in { x \in rels : x[2] = "HAS" /\ x[3] = i } }
PartOfFrom(i) == { r[1] : r \in { x \in rels : x[2] = "PART_OF" /\ x[3] = i } }

AllIdle == \A q \in Procs : pc[q] = "idle"
Ran == { q \in Procs : runs[q] > 0 }

\* ------------------------------------------------------------ C1
\* C1 (as claimed): when the runs so far, one after the other and none ended by an
\* exception, are runs of one host p in which upsert_software was called, once or
\* more, with one and the same fact f, the store holds exactly one SYSTEM node,
\* exactly one SW_BASE node and exactly one SW_INSTALLATION node.
C1_Idempotent ==
    \A p \in Procs, f \in Facts :
        (AllIdle /\ raised = 0 /\ Ran = {p} /\ completed = {<<p, f>>})
            => /\ Cardinality(SystemNodes) = 1
               /\ Cardinality(SwBaseNodes) = 1
               /\ Cardinality(SwInstNodes) = 1

\* ------------------------------------------------------------ C2
\* C2 (as claimed): with two SYSTEM nodes of its guid in the store, get_sys of
\* host 1 fails: the run never reaches upsert_software, it does not adopt one of
\* the two nodes and no third node with the guid is created.
C2_AmbiguousMatch ==
    /\ ~InCall(1)
    /\ system_node[1] \notin {1, 2}
    /\ Cardinality({ i \in DOMAIN nodes : HasProps(nodes[i], {"guid"})
                                          /\ nodes[i].props.guid = SysId(1) }) = 2

\* ------------------------------------------------------------ C3
\* C3 (as claimed): whatever the interleaving of the hosts' store round trips (no
\* call ended by an exception), there is at most one SW_BASE node for each
\* (name, path, version, src).
C3_SwBaseUnique ==
    raised = 0 => \A f \in Facts : Cardinality(SwBaseOf(f)) <= 1

\* ------------------------------------------------------------ C4
\* C4 (as claimed): after the two hosts have each run to completion, one after the
\* other, both with the same fact f and nothing else, there is exactly one SW_BASE
\* node for f and there are exactly two SW_INSTALLATION nodes, each with PART_OF
\* from that SW_BASE node and with HAS from a SYSTEM node, a different one each.
C4_Sharing ==
    \A f \in Facts :
        (AllIdle /\ raised = 0 /\ completed = { <<p, f>> : p \in Procs })
            => /\ Cardinality(SwBaseOf(f)) = 1
               /\ Cardinality(SwInstNodes) = 2
               /\ \A i \in SwInstNodes :
                     /\ PartOfFrom(i) = SwBaseOf(f)
                     /\ Cardinality(HasFrom(i)) = 1
                     /\ HasFrom(i) \subseteq SystemNodes
               /\ \A i, j \in SwInstNodes : i # j => HasFrom(i) # HasFrom(j)

\* ------------------------------------------------------------ C5
\* C5 (as claimed): after one run of one host on the empty store with two facts
\* that differ in version only, there are two SW_BASE nodes and two
\* SW_INSTALLATION nodes, each SW_INSTALLATION with PART_OF from exactly one of
\* the SW_BASE nodes, a different one each, and with HAS from the one SYSTEM node.
C5_UniqueByVersion ==
    \A p \in Procs, f1, f2 \in Facts :
        ( /\ f1 # f2
          /\ f1.name = f2.name /\ f1.path = f2.path /\ f1.src = f2.src
          /\ AllIdle /\ raised = 0 /\ Ran = {p} /\ runs[p] = 1
          /\ completed = {<<p, f1>>, <<p, f2>>} )
            => /\ Cardinality(SwBaseNodes) = 2
               /\ Cardinality(SwInstNodes) = 2
               /\ Cardinality(SystemNodes) = 1
               /\ \A i \in SwInstNodes :
                     /\ Cardinality(PartOfFrom(i)) = 1
                     /\ PartOfFrom(i) \subseteq SwBaseNodes
                     /\ HasFrom(i) = SystemNodes
               /\ \A i, j \in SwInstNodes : i # j => PartOfFrom(i) # PartOfFrom(j)

\* ------------------------------------------------------------ C6
\* the SW_INSTALLATION nodes linked to a SYSTEM node of the guid and to a SW_BASE
\* node of the fact
InstOf(guid, sw) ==
    { i \in SwInstNodes : /\ HasFrom(i) \cap SystemOf(guid) # {}
                          /\ PartOfFrom(i) \cap SwBaseOf(sw) # {} }

\* C6 (as claimed): after runs that follow one another and all completed, every
\* (guid, fact) has at most one SW_INSTALLATION node linked to both, and exactly
\* one if upsert_software has returned for that host and fact.
C6_InstUnique ==
    (AllIdle /\ raised = 0)
        => \A p \in Procs, f \in Facts :
              /\ Cardinality(InstOf(SysId(p), f)) <= 1
              /\ <<p, f>> \in completed => Cardinality(InstOf(SysId(p), f)) = 1

\* ------------------------------------------------------------ C7
\* C7: discovered is write-once: no step changes the discovered attribute of a
\* node that has one.
C7_DiscoveredWriteOnce ==
    [][ \A i \in DOMAIN nodes :
            HasProps(nodes[i], {"discovered"})
                => nodes'[i].props.discovered = nodes[i].props.discovered ]_vars

\* a SW_INSTALLATION node was refreshed by a later run
C7_Witness ==
    \E i \in SwInstNodes :
        /\ HasFrom(i) # {}
        /\ nodes[i].props.last_seen # nodes[i].props.discovered

\* ------------------------------------------------------------ C8
\* upsert_software of host p refreshes a node in this step
Refreshes(p) == pc[p] = "inst_touch" /\ pc'[p] # "inst_touch" /\ raised' = raised

C9_NoItemDropped ==
    \A p \in Procs : pc[p] = "idle" => left[p] = 0

\* ------------------------------------------------------------ C10
\* C10 (as claimed): when no upsert_software call is in progress, every
\* SW_INSTALLATION node has exactly one HAS from a SYSTEM node and exactly one
\* PART_OF from a SW_BASE node, also after a call was ended by a store failure.
C10_NoHalfWired ==
    (\A p \in Procs : ~InCall(p))
        => \A i \in SwInstNodes :
              /\ Cardinality(HasFrom(i) \cap SystemNodes) = 1
              /\ Cardinality(PartOfFrom(i) \cap SwBaseNodes) = 1

\* ------------------------------------------------------------ C11
\* C11 (as claimed): a run that an unreachable store ended while the instance
\* connected or resolved its system node ended with the store-unavailable failure
\* (the ConnectionError of the client) and had written nothing to the store.
C11_RunFatal ==
    exc.at \in {"connect", "sys_query", "sys_create", "sys_label"}
        => /\ exc.kind = "ConnectionError"
           /\ ~exc.wrote

\* ------------------------------------------------------------ C12
\* C12: vanished is never set: after every step every node with the attribute has
\* vanished = "0", and no step changes the vanished attribute of a node.
C12_VanishedNeverSet ==
    [][ /\ \A i \in DOMAIN nodes' :
              HasProps(nodes'[i], {"vanished"}) => nodes'[i].props.vanished = "0"
        /\ \A i \in DOMAIN nodes :
              HasProps(nodes[i], {"vanished"})
                  => nodes'[i].props.vanished = nodes[i].props.vanished ]_vars

\* a SW_INSTALLATION node that a later call has refreshed, all runs over
C12_Witness ==
    /\ AllIdle
    /\ \E i \in SwInstNodes :
          /\ nodes[i].props.vanished = "0"
          /\ nodes[i].props.last_seen > nodes[i].props.discovered
          /\ PartOfFrom(i) # {}

\* ------------------------------------------------------------ C13
\* the nodes that a result holds
RECURSIVE Underlying(_)
Underlying(r) ==
    IF r.type = "QuerySequence" THEN { row[1] : row \in r.rows }
    ELSE IF r.type = "list"
    THEN UNION { Underlying(r.elems[k]) : k \in DOMAIN r.elems }
    ELSE {r.val}

ZeroRows(r) == r.type = "QuerySequence" /\ r.rows = {}
OneRow(r) == r.type = "QuerySequence" /\ Cardinality(r.rows) = 1

\* a list that nests one-row results, all for one node
NestsOneNode(r) ==
    /\ r.type = "list"
    /\ r.elems # <<>>
    /\ \A k \in DOMAIN r.elems : OneRow(r.elems[k])
    /\ Cardinality(Underlying(r)) = 1

\* C13 (as claimed): unfold returns None for a result of zero rows, the node for
\* a result of one row and for a list that nests one-row results for one node, and
\* never None for a result that holds exactly one node.
C13_UnfoldNormalizes ==
    unfold_ret.state # "not called" =>
        LET a == unfold_ret.arg
        IN  /\ ZeroRows(a) => (unfold_ret.state = "returned" /\ unfold_ret.val = None)
            /\ (OneRow(a) \/ NestsOneNode(a))
                  => (unfold_ret.state = "returned" /\ {unfold_ret.val} = Underlying(a))
            /\ Cardinality(Underlying(a)) = 1
                  => ~(unfold_ret.state = "returned" /\ unfold_ret.val = None)

\* ------------------------------------------------------------ C14
\* host p takes a step from position at that raises nothing
Steps(p, at) == pc[p] = at /\ pc'[p] # at /\ raised' = raised

\* C14 (as claimed): get_sys, step by step.  The query leaves the store as it is
\* and fails only when the store cannot be reached; with no SYSTEM node of the
\* guid it goes on to create, with exactly one it adopts that node and get_sys is
\* over.  The creation appends one node with the hostname and the guid and
\* nothing else; the label step gives that node the SYSTEM label and changes
\* nothing else.
C14_GetSysEffect ==
    [][ \A p \in AllProcs :
          /\ (pc[p] = "sys_query" /\ pc'[p] # "sys_query" /\ raised' # raised)
                => exc'.kind = "ConnectionError"
          /\ Steps(p, "sys_query") =>
                /\ nodes' = nodes
                /\ rels' = rels
                /\ SystemOf(SysId(p)) = {} => pc'[p] = "sys_create"
                /\ Cardinality(SystemOf(SysId(p))) = 1 =>
                      /\ pc'[p] \in {"base_query", "idle"}
                      /\ pc'[p] = "base_query" => system_node'[p] \in SystemOf(SysId(p))
          /\ Steps(p, "sys_create") =>
                /\ nodes' = Append(nodes, [labels |-> {},
                                           props |-> [name |-> Hostname(p, runs[p]),
                                                      guid |-> SysId(p)]])
                /\ rels' = rels
                /\ system_node'[p] = Len(nodes')
                /\ pc'[p] = "sys_label"
          /\ Steps(p, "sys_label") =>
                /\ Len(nodes') = Len(nodes)
                /\ rels' = rels
                /\ \A i \in DOMAIN nodes : i # system_node[p] => nodes'[i] = nodes[i]
                /\ nodes'[system_node[p]] =
                      [labels |-> {"SYSTEM"},
                       props |-> [name |-> Hostname(p, runs[p]), guid |-> SysId(p)]]
                /\ pc'[p] \in {"base_query", "idle"} ]_vars

\* ------------------------------------------------------------ C15
\* C15: when upsert_software returns after it created a SW_INSTALLATION node, the
\* node has the label, discovered = last_seen = the timestamp of the run and
\* vanished = "0", a PART_OF from the SW_BASE node of the call and a HAS from the
\* SYSTEM node of the run.
C15_InitialInstallation ==
    [][ \A p \in AllProcs :
          Steps(p, "inst_has") =>
              /\ nodes'[sw_inst[p]] =
                    [labels |-> {"SW_INSTALLATION"},
                     props |-> [discovered |-> now[p], last_seen |-> now[p],
                                vanished |-> "0"]]
              /\ <<sw_base[p], "PART_OF", sw_inst[p]>> \in rels'
              /\ <<system_node[p], "HAS", sw_inst[p]>> \in rels'
              /\ IsSwBase(nodes'[sw_base[p]])
              /\ IsSystem(nodes'[system_node[p]])
              /\ nodes'[system_node[p]].props.guid = SysId(p) ]_vars

\* a call has created and wired a node in a run whose timestamp is not the first
\* second
C15_Witness ==
    \E i \in SwInstNodes :
        /\ HasFrom(i) # {}
        /\ PartOfFrom(i) # {}
        /\ nodes[i].props.discovered = nodes[i].props.last_seen
        /\ nodes[i].props.discovered > 0

\* ------------------------------------------------------------ C16
\* C16: no step removes a node or a relationship or a label or an attribute, and
\* the only attribute of a node that a step changes is last_seen of a node with
\* the SW_INSTALLATION label.
C16_AppendOnly ==
    [][ /\ Len(nodes') >= Len(nodes)
        /\ rels \subseteq rels'
        /\ \A i \in DOMAIN nodes :
              /\ nodes[i].labels \subseteq nodes'[i].labels
              /\ DOMAIN nodes'[i].props = DOMAIN nodes[i].props
              /\ \A k \in DOMAIN nodes[i].props :
                    nodes'[i].props[k] # nodes[i].props[k]
                        => (k = "last_seen" /\ IsSwInst(nodes[i])) ]_vars

\* the store holds nodes of the three kinds and a SW_INSTALLATION node whose
\* last_seen a step has changed
C16_Witness ==
    /\ SystemNodes # {}
    /\ SwBaseNodes # {}
    /\ Cardinality(rels) >= 2
    /\ \E i \in SwInstNodes : nodes[i].props.last_seen # nodes[i].props.discovered

\* ------------------------------------------------------------ C17
\* C17 (as claimed): when no upsert_software call is in progress and none was
\* ended by an exception, every SW_BASE node has a PART_OF to a SW_INSTALLATION
\* node.
C17_NoOrphanBase ==
    (raised = 0 /\ \A p \in AllProcs : ~InCall(p))
        => \A b \in SwBaseNodes :
              \E r \in rels : r[1] = b /\ r[2] = "PART_OF" /\ IsSwInst(nodes[r[3]])

\* ------------------------------------------------------------ C18
\* C18: HAS is wired last: every node with an inbound HAS has an inbound PART_OF
\* and the SW_INSTALLATION label, in every state.
C18_HasWiredLast ==
    \A i \in DOMAIN nodes :
        HasFrom(i) # {} => (PartOfFrom(i) # {} /\ IsSwInst(nodes[i]))

\* a call was ended between its two relationship writes: a labelled node with
\* PART_OF and without HAS, and no call in progress
C18_Witness ==
    /\ \A p \in AllProcs : ~InCall(p)
    /\ \E i \in SwInstNodes : PartOfFrom(i) # {} /\ HasFrom(i) = {}
    /\ \E i \in SwInstNodes : HasFrom(i) # {}

\* ------------------------------------------------------------ C19
\* A run on its own, as a function of the store G = [nodes, rels]: the outcome
\* carries the store, the run's system node (sys) and whether the run is still
\* going (ok: no exception so far).

\* __init__ of host p in its r-th run: get_sys
GetSysOn(G, p, r) ==
    LET q == SystemMatches(G.nodes, SysId(p))
        n == Len(G.nodes) + 1
    IN  IF q.type = "error"
        THEN [nodes |-> G.nodes, rels |-> G.rels, sys |-> None, ok |-> FALSE]
        ELSE IF Unfold(q) # None
        THEN [nodes |-> G.nodes, rels |-> G.rels, sys |-> Unfold(q), ok |-> TRUE]
        ELSE [nodes |-> AddLabel(Append(G.nodes, SystemNode(Hostname(p, r), SysId(p))),
                                 n, "SYSTEM"),
              rels |-> G.rels, sys |-> n, ok |-> TRUE]

\* upsert_software(sw) of host p with self._now = t, up to the SW_BASE node
BaseOn(R, sw) ==
    LET q == SwBaseMatches(R.nodes, sw)
        n == Len(R.nodes) + 1
    IN  IF q.type = "error" THEN [R EXCEPT !.ok = FALSE] @@ [base |-> None]
        ELSE IF Unfold(q) # None THEN R @@ [base |-> Unfold(q)]
        ELSE [R EXCEPT !.nodes = AddLabel(Append(R.nodes, SwBaseNode(sw)), n, "SW_BASE")]
                 @@ [base |-> n]

\* upsert_software(sw) of host p with self._now = t; a call after an exception
\* does not take place
UpsertOn(R, p, t, sw) ==
    IF ~R.ok THEN R
    ELSE LET B == BaseOn(R, sw)
             q == SwInstMatches(B.nodes, B.rels, SysId(p), sw)
             n == Len(B.nodes) + 1
         IN  IF ~B.ok \/ q.type = "error"
             THEN [nodes |-> B.nodes, rels |-> B.rels, sys |-> R.sys, ok |-> FALSE]
             ELSE IF Unfold(q) # None
             THEN [nodes |-> SetLastSeen(B.nodes, Unfold(q), t),
                   rels |-> B.rels, sys |-> R.sys, ok |-> TRUE]
             ELSE [nodes |-> AddLabel(Append(B.nodes, SwInstNode(t)), n, "SW_INSTALLATION"),
                   rels |-> B.rels \cup { <<B.base, "PART_OF", n>>, <<R.sys, "HAS", n>> },
                   sys |-> R.sys, ok |-> TRUE]

\* a run of host p with the timestamp t whose query result is f1, f2
RunOn(G, p, r, t, f1, f2) == UpsertOn(UpsertOn(GetSysOn(G, p, r), p, t, f1), p, t, f2)

\* RunOn agrees with the steps: the store after the one run of host p on the empty
\* store in which upsert_software returned for two facts is the store that RunOn
\* gives for the two facts in one of the two orders
RunOnAgrees ==
    \A p \in Procs, f1, f2 \in Facts :
        ( /\ f1 # f2
          /\ AllIdle /\ raised = 0 /\ Ran = {p} /\ runs[p] = 1
          /\ completed = {<<p, f1>>, <<p, f2>>} )
            => \E t \in 0..Strftime(MaxClock) :
                  \E X \in { RunOn([nodes |-> <<>>, rels |-> {}], p, 1, t, f1, f2),
                              RunOn([nodes |-> <<>>, rels |-> {}], p, 1, t, f2, f1) } :
                      X.ok /\ X.nodes = nodes /\ X.rels = rels

\* a graph up to the identity of its nodes: how many nodes there are of each
\* (labels, attributes), how many relationships of each (from, type, to)
NodeBag(G) ==
    [ n \in { G.nodes[i] : i \in DOMAIN G.nodes } |->
          Cardinality({ i \in DOMAIN G.nodes : G.nodes[i] = n }) ]

RelBag(G) ==
    [ e \in { <<G.nodes[x[1]], x[2], G.nodes[x[3]]>> : x \in G.rels } |->
          Cardinality({ x \in G.rels : <<G.nodes[x[1]], x[2], G.nodes[x[3]]>> = e }) ]

\* C19 (as claimed): on a store left by completed runs that followed one another,
\* a run of host p with the facts f1, f2, both calls returning, leaves the same
\* graph, up to the identity of the nodes, as the run with f2, f1.
C19_OrderIndependent ==
    (AllIdle /\ raised = 0) =>
        \A p \in Procs, f1, f2 \in Facts :
            LET G == [nodes |-> nodes, rels |-> rels]
                t == Strftime(clock)
                A == RunOn(G, p, runs[p] + 1, t, f1, f2)
                B == RunOn(G, p, runs[p] + 1, t, f2, f1)
            IN  (A.ok /\ B.ok) => (NodeBag(A) = NodeBag(B) /\ RelBag(A) = RelBag(B))

====
